---- MODULE Spec2Model ----
(***************************************************************************)
(* Tests Hub service worker (src/sw.js): cache lifecycle (install,         *)
(* activate), request routing, the cache-first and network-first           *)
(* strategies and the quota-guarded write into the dynamic cache.          *)
(*                                                                         *)
(* Time is in milliseconds.  A URL is a record of its scheme and its path  *)
(* segments; a cache is the list of its entries in insertion order, and    *)
(* the cache storage is the list of cache names in creation order.         *)
(***************************************************************************)
EXTENDS Integers, Sequences, FiniteSets, TLC

\* ------------------------------------------------------------------ bounds
\* instants of the clock: one start instant and MaxWeeks later pairs
MaxWeeks == 1
\* fetch events dispatched to the worker in one behaviour
MaxFetchEvents == 3
\* fetch handlers in flight at the same time
MaxInFlight == 2
\* install attempts (worker instances running this script)
MaxInstalls == 2
\* deployed content revisions of the site
MaxContent == 2
\* periodicsync events delivered to the worker in one behaviour
MaxSyncs == 2
\* times the sweep timer fires in one behaviour
MaxSweeps == 2
\* push events delivered to the worker in one behaviour
MaxPushes == 1
\* pages the user opens in one behaviour
MaxWindows == 2
\* message events sent to the worker in one behaviour
MaxMessages == 2
\* fetch, periodicsync and timer events together, where all three are at work
MaxStorageEvents == 3
\* img elements of the page an export clones
MaxImages == 3

\* --------------------------------------------------------------- constants
CACHE_NAME == "tests-hub-v2.1.7"
STATIC_CACHE_NAME == "tests-hub-static-v2.1.7"
\* a dynamic cache that is the static cache
DynamicInStaticCache == "tests-hub-static-v2.1.7"
DYNAMIC_CACHE_NAME == "tests-hub-dynamic-v2.1.7"

MAX_AGE_DAYS == 7
MAX_AGE_MS == MAX_AGE_DAYS * 24 * 60 * 60 * 1000

Url(scheme, path) == [scheme |-> scheme, path |-> path]

\* '/', the site's shell
ROOT == Url("https", <<"">>)
INDEX == Url("https", <<"index.html">>)
MANIFEST == Url("https", <<"manifest.json">>)

\* the app shell precached at install; the Tests_*.html pages and /sw.js are
\* handled exactly like /index.html and /manifest.json and are left out
STATIC_ASSETS == <<ROOT, INDEX, MANIFEST>>

\* cache names left behind by earlier versions of the worker
OldCacheNames ==
    {"tests-hub-v2.1.6", "tests-hub-static-v2.1.6", "tests-hub-dynamic-v2.1.6"}

AllCacheNames ==
    {CACHE_NAME, STATIC_CACHE_NAME, DYNAMIC_CACHE_NAME} \cup OldCacheNames

\* the cache storage an install can find: in creation order
PriorCacheLists ==
    { <<>>,
      <<"tests-hub-v2.1.6">>,
      <<"tests-hub-static-v2.1.6", "tests-hub-dynamic-v2.1.6">> }

\* the requests the pages issue
NEWPAGE == Url("https", <<"new.html">>)
APIDATA == Url("https", <<"api", "data">>)
LOGO == Url("https", <<"assets", "logo.png">>)
EXTENSION == Url("chrome-extension", <<"abc", "inject.js">>)

Request(url, method, html) == [url |-> url, method |-> method, html |-> html]

\* html: the Accept header includes text/html
Requests ==
    { Request(INDEX, "GET", TRUE),
      Request(NEWPAGE, "GET", TRUE),
      Request(MANIFEST, "GET", FALSE),
      Request(LOGO, "GET", FALSE),
      Request(APIDATA, "GET", FALSE),
      Request(APIDATA, "POST", FALSE),
      Request(EXTENSION, "GET", FALSE) }

\* the instants the clock shows: T0 is later than MAX_AGE_MS after the epoch
T0 == MAX_AGE_MS + 1
Clock ==
    {T0} \cup { T0 + k * MAX_AGE_MS + j : k \in 1..MaxWeeks, j \in 0..1 }

H == 1..MaxInFlight

VARIABLES
    phase,       \* lifecycle state of the newest worker instance
    gen,         \* number of install attempts so far
    active,      \* the instance that is the active worker (0: none)
    skipWaiting, \* the newest instance asked to skip the waiting state
    cacheNames,  \* caches.keys(): the existing caches in creation order
    store,       \* cache name -> list of entries in insertion order
    now,         \* Date.now()
    content,     \* the revision of the site the server serves
    sendsDate,   \* the server puts a Date header on its responses
    act,         \* the running activation: deletions pending, claim, failure
    hs,          \* the fetch handlers in flight
    nreq,        \* fetch events dispatched so far
    hist,        \* what the last steps of install did (observation only)
    routed,      \* the last fetch event: its request and what the handler chose
    shown,       \* the showNotification calls of the push handler, in order
    clients,     \* the open window clients
    msg,         \* the last message event
    port,        \* the messages posted on the reply port, in order
    skips,       \* self.skipWaiting() calls made by the message handler
    upd,         \* the run of updateCachedContent started by a periodicsync
    swp,         \* the run of cleanupOldCacheEntries started by the timer
    pdf          \* the page's call of generatePDFWithCanvas (export helper)

\* what the push, notificationclick and message handlers and the page's
\* export helper work on
pageEvents == <<shown, clients, msg, port, skips, pdf>>

\* what the periodic refresh and the staleness sweep work on
background == <<upd, swp>>

vars ==
    <<phase, gen, active, skipWaiting, cacheNames, store, now, content,
      sendsDate, act, hs, nreq, hist, routed, pageEvents, background>>

\* --------------------------------------------------------------- responses
NoDate == 0 - 1

Response(status, ctype, date, body, rev) ==
    [status |-> status, ctype |-> ctype, date |-> date, body |-> body, rev |-> rev]

\* no response: undefined
Undefined == Response(0 - 1, "", NoDate, "undefined", 0)
\* a promise that has not settled
Pending == Response(0 - 2, "", NoDate, "pending", 0)

\* what the server answers with status st at this instant
NetworkResponse(st, t, rev, dated) ==
    Response(st, "", IF dated THEN t ELSE NoDate, "content", rev)

\* response.ok
Ok(r) == r.status >= 200 /\ r.status <= 299

\* the statuses the server answers a GET with
Statuses == {200, 204, 404}

Range(s) == { s[i] : i \in 1..Len(s) }

\* ------------------------------------------------------------------- cache
Entry(key, resp, at) == [key |-> key, resp |-> resp, at |-> at]

\* cache.keys()
CacheKeys(c) == [ i \in 1..Len(c) |-> c[i].key ]

\* cache.delete(key)
CacheDelete(c, key) == SelectSeq(c, LAMBDA e : e.key # key)

\* a put that keeps the entry it should replace
CachePutKeeping(c, key, resp, at) == Append(c, Entry(key, resp, at))

\* cache.put(key, resp): the entry of the key is replaced, the new one is last
CachePut(c, key, resp, at) == Append(CacheDelete(c, key), Entry(key, resp, at))

\* cache.match(key): the entry itself, or none
CacheHas(c, key) == \E i \in 1..Len(c) : c[i].key = key

CacheEntry(c, key) == c[CHOOSE i \in 1..Len(c) : c[i].key = key]

CacheMatch(c, key) == IF CacheHas(c, key) THEN CacheEntry(c, key).resp ELSE Undefined

\* caches.match over the caches `names` of storage `st`, in creation order
RECURSIVE MatchIn(_, _, _)
MatchIn(names, st, key) ==
    IF names = <<>> THEN Undefined
    ELSE IF CacheHas(st[Head(names)], key) THEN CacheMatch(st[Head(names)], key)
    ELSE MatchIn(Tail(names), st, key)

\* the cache whose entry caches.match returns ("" when none matches)
RECURSIVE MatchCache(_, _, _)
MatchCache(names, st, key) ==
    IF names = <<>> THEN ""
    ELSE IF CacheHas(st[Head(names)], key) THEN Head(names)
    ELSE MatchCache(Tail(names), st, key)

\* caches.match(key)
CachesMatch(key) == MatchIn(cacheNames, store, key)

\* caches.open(name): the list of caches after it
CachesOpen(names, name) ==
    IF name \in Range(names) THEN names ELSE Append(names, name)

\* caches.delete(name): the list of caches after it
CachesDelete(names, name) == SelectSeq(names, LAMBDA n : n # name)

\* ----------------------------------------------------------------- network
\* the files of the site answer 200 or 404; the other URLs (endpoints) may
\* also answer 204
FileUrls == {ROOT, INDEX, MANIFEST, NEWPAGE}

ServerStatuses(url) == IF url \in FileUrls THEN {200, 404} ELSE Statuses

\* outcome 0 of a fetch: the network is unreachable and fetch() rejects
NetworkError == 0

FetchOutcomes(url) == ServerStatuses(url) \cup {NetworkError}

\* navigator.storage.estimate(): the samples of usage, out of Quota
Quota == 100
UsageSamples == {90, 91}

\* ---------------------------------------------------------------- install
\* the three cache names of this version
CurrentCacheNames == {CACHE_NAME, STATIC_CACHE_NAME, DYNAMIC_CACHE_NAME}

\* an addAll that resolves whatever the answers are
AddAllResolvesAnyway(out) == TRUE

\* cache.addAll resolves when every request was answered with an ok response
AddAllResolves(out) ==
    \A i \in 1..Len(out) : out[i] # NetworkError /\ out[i] >= 200 /\ out[i] <= 299

RECURSIVE PutAll(_, _, _, _, _, _)
PutAll(c, urls, out, t, rev, dated) ==
    IF urls = <<>> THEN c
    ELSE PutAll(CachePut(c, Head(urls), NetworkResponse(Head(out), t, rev, dated), t),
                Tail(urls), Tail(out), t, rev, dated)

\* an addAll that keeps the responses it got when another request failed
RECURSIVE AddAllPartial(_, _, _, _, _, _)
AddAllPartial(c, urls, out, t, rev, dated) ==
    IF urls = <<>> THEN c
    ELSE AddAllPartial(
            IF Head(out) # NetworkError /\ Head(out) >= 200 /\ Head(out) <= 299
            THEN CachePut(c, Head(urls), NetworkResponse(Head(out), t, rev, dated), t)
            ELSE c,
            Tail(urls), Tail(out), t, rev, dated)

\* cache.addAll(urls): all the responses are put, or none is
AddAll(c, urls, out, t, rev, dated) ==
    IF AddAllResolves(out) THEN PutAll(c, urls, out, t, rev, dated) ELSE c

\* the responses an addAll got, one per URL
Served(out, t, rev, dated) ==
    [ i \in 1..Len(out) |-> NetworkResponse(out[i], t, rev, dated) ]

\* settled: how the promise given to waitUntil settled ("" while it has not)
NoActivation ==
    [pending |-> {}, deleted |-> {}, claimed |-> TRUE, failed |-> FALSE,
     settled |-> "fulfilled"]

\* install event: caches.open(STATIC_CACHE_NAME) and self.skipWaiting()
InstallStart ==
    /\ phase \in {"none", "activated", "redundant"}
    /\ gen < MaxInstalls
    /\ gen' = gen + 1
    /\ phase' = "installing"
    /\ skipWaiting' = TRUE
    /\ cacheNames' = CachesOpen(cacheNames, STATIC_CACHE_NAME)
    /\ hist' = [hist EXCEPT !.createdStatic = STATIC_CACHE_NAME \notin Range(cacheNames),
                            !.installFailed = FALSE,
                            !.repeated = FALSE]
    /\ UNCHANGED <<background, pageEvents, routed, active, store, now, content, sendsDate, act, hs, nreq>>

\* install event: cache.addAll(STATIC_ASSETS) settles
InstallFinish ==
    /\ phase = "installing"
    /\ \E out \in [1..Len(STATIC_ASSETS) -> {200, 404, NetworkError}] :
          /\ store' = [store EXCEPT ![STATIC_CACHE_NAME] =
                          AddAll(@, STATIC_ASSETS, out, now, content, sendsDate)]
          /\ phase' = IF AddAllResolves(out) THEN "installed" ELSE "redundant"
          /\ hist' = [hist EXCEPT
                          !.installFailed = ~AddAllResolves(out),
                          !.lastOut = out,
                          !.repeated = AddAllResolves(out)
                                       /\ hist.served = Served(out, now, content, sendsDate),
                          !.served = IF AddAllResolves(out)
                                     THEN Served(out, now, content, sendsDate) ELSE @]
    /\ UNCHANGED <<background, pageEvents, routed, gen, active, skipWaiting, cacheNames, now, content, sendsDate,
                   act, hs, nreq>>

\* --------------------------------------------------------------- activate
\* a test that spares every cache of an earlier static version
IsOldCacheButStatic(cacheName) ==
    /\ cacheName # CACHE_NAME
    /\ cacheName # "tests-hub-static-v2.1.6"
    /\ cacheName # DYNAMIC_CACHE_NAME

\* the test of the activate handler: the cache is none of the current three
IsOldCache(cacheName) ==
    /\ cacheName # CACHE_NAME
    /\ cacheName # STATIC_CACHE_NAME
    /\ cacheName # DYNAMIC_CACHE_NAME

\* activate event: caches.keys(), one caches.delete per old cache, and
\* self.clients.claim(), all started together
ActivateStart ==
    /\ phase = "installed"
    /\ skipWaiting
    /\ phase' = "activating"
    /\ active' = gen
    /\ act' = [pending |-> { n \in Range(cacheNames) : IsOldCache(n) },
               deleted |-> {}, claimed |-> FALSE, failed |-> FALSE,
               settled |-> ""]
    /\ UNCHANGED <<background, pageEvents, routed, gen, skipWaiting, cacheNames, store, now, content, sendsDate,
                   hs, nreq, hist>>

\* one caches.delete(cacheName) resolves: the cache is gone
DeleteOldCache ==
    /\ \E n \in act.pending :
         /\ cacheNames' = CachesDelete(cacheNames, n)
         /\ store' = [store EXCEPT ![n] = <<>>]
         /\ act' = [act EXCEPT !.pending = @ \ {n}, !.deleted = @ \cup {n}]
    /\ UNCHANGED <<background, pageEvents, routed, phase, gen, active, skipWaiting, now, content, sendsDate,
                   hs, nreq, hist>>

\* one caches.delete(cacheName) rejects: the cache stays
DeleteOldCacheFails ==
    /\ \E n \in act.pending :
         act' = [act EXCEPT !.pending = @ \ {n}, !.failed = TRUE]
    /\ UNCHANGED <<background, pageEvents, routed, phase, gen, active, skipWaiting, cacheNames, store, now,
                   content, sendsDate, hs, nreq, hist>>

\* self.clients.claim() settles
ClaimClients ==
    /\ phase \in {"activating", "activated"}
    /\ ~act.claimed
    /\ act' = [act EXCEPT !.claimed = TRUE]
    /\ UNCHANGED <<background, pageEvents, routed, phase, gen, active, skipWaiting, cacheNames, store, now,
                   content, sendsDate, hs, nreq, hist>>

\* the promise given to waitUntil settled: Promise.all is fulfilled when
\* everything resolved and rejected as soon as one deletion rejected; the
\* worker is activated either way
ActivateDone ==
    /\ phase = "activating"
    /\ (act.pending = {} /\ act.claimed) \/ act.failed
    /\ phase' = "activated"
    /\ act' = [act EXCEPT !.settled = IF act.failed THEN "rejected" ELSE "fulfilled"]
    /\ UNCHANGED <<background, pageEvents, routed, gen, active, skipWaiting, cacheNames, store,
                   now, content, sendsDate, hs, nreq, hist>>

\* ------------------------------------------------------------ environment
\* no handler is between two of its steps
Quiet == \A h \in H : hs[h].pc \in {"idle", "done"}

\* the worker is at rest: no lifecycle transition, no handler, no refresh
\* and no sweep is under way
AtRest ==
    /\ Quiet
    /\ phase \in {"activated", "redundant"}
    /\ upd.pc \in {"idle", "done"}
    /\ swp.pc \in {"idle", "done"}

\* time passes: the instants of Clock are a week apart, and a week passes
\* only while the worker is at rest
Tick ==
    /\ AtRest
    /\ \E t \in Clock : t > now /\ now' = t
    /\ UNCHANGED <<background, pageEvents, routed, phase, gen, active, skipWaiting, cacheNames, store, content,
                   sendsDate, act, hs, nreq, hist>>

\* a new revision of the site is deployed
Deploy ==
    /\ AtRest
    /\ content < MaxContent
    /\ content' = content + 1
    /\ UNCHANGED <<background, pageEvents, routed, phase, gen, active, skipWaiting, cacheNames, store, now,
                   sendsDate, act, hs, nreq, hist>>

\* the server stops putting a Date header on its responses
DateHeaderDropped ==
    /\ AtRest
    /\ sendsDate
    /\ sendsDate' = FALSE
    /\ UNCHANGED <<background, pageEvents, routed, phase, gen, active, skipWaiting, cacheNames, store, now,
                   content, act, hs, nreq, hist>>

\* ------------------------------------------------------------------- fetch

\* request.url.includes('/api/'): a path segment "api" followed by a slash
IsApi(url) == \E i \in 1..(Len(url.path) - 1) : url.path[i] = "api"

\* a routing that does not look for '/api/' in the URL
RouteByAcceptOnly(req) ==
    IF req.method # "GET" THEN "passthrough"
    ELSE IF req.url.scheme = "chrome-extension" THEN "passthrough"
    ELSE IF req.html THEN "networkFirst"
    ELSE "cacheFirst"

\* a routing that does not look at the method
RouteAnyMethod(req) ==
    IF req.url.scheme = "chrome-extension" THEN "passthrough"
    ELSE IF IsApi(req.url) THEN "networkFirst"
    ELSE IF req.html THEN "networkFirst"
    ELSE "cacheFirst"

\* the fetch handler's choice: no respondWith, network first or cache first
Route(req) ==
    IF req.method # "GET" THEN "passthrough"
    ELSE IF req.url.scheme = "chrome-extension" THEN "passthrough"
    ELSE IF IsApi(req.url) THEN "networkFirst"
    ELSE IF req.html THEN "networkFirst"
    ELSE "cacheFirst"

IdleHandler ==
    [pc |-> "idle", req |-> Request(ROOT, "GET", FALSE), strat |-> "none",
     resp |-> Undefined, ret |-> Pending, bg |-> FALSE, oldest |-> <<>>,
     hit |-> <<>>, seen |-> 0, netFailed |-> FALSE, missed |-> FALSE,
     over |-> FALSE, evict |-> "none", writeFailed |-> FALSE]

\* the slot a new fetch event takes
FreeSlots == { h \in H : hs[h].pc \in {"idle", "done"} }

\* fetch event: the handler returns without respondWith
FetchEventIgnored ==
    /\ active > 0
    /\ phase # "activating"
    /\ nreq < MaxFetchEvents
    /\ \E req \in Requests :
         /\ Route(req) = "passthrough"
         /\ routed' = <<[req |-> req, strat |-> Route(req)]>>
    /\ nreq' = nreq + 1
    /\ UNCHANGED <<background, pageEvents, phase, gen, active, skipWaiting, cacheNames, store, now,
                   content, sendsDate, act, hs, hist>>

\* fetch event: respondWith(networkFirstStrategy(request)) or
\* respondWith(cacheFirstStrategy(request))
FetchEvent ==
    /\ active > 0
    /\ phase # "activating"
    /\ nreq < MaxFetchEvents
    /\ FreeSlots # {}
    /\ \E req \in Requests :
         LET h == CHOOSE x \in FreeSlots : \A y \in FreeSlots : x <= y
         IN  /\ Route(req) # "passthrough"
             /\ routed' = <<[req |-> req, strat |-> Route(req)]>>
             /\ hs' = [hs EXCEPT ![h] =
                         [IdleHandler EXCEPT
                             !.req = req,
                             !.strat = Route(req),
                             !.pc = IF Route(req) = "networkFirst" THEN "nf_fetch"
                                    ELSE "cf_match"]]
    /\ nreq' = nreq + 1
    /\ UNCHANGED <<background, pageEvents, phase, gen, active, skipWaiting, cacheNames, store,
                   now, content, sendsDate, act, hist>>

\* ----------------------------------------------------- synthetic responses
\* an offlineResponse that answers every request with the page
offlineResponsePageOnly(req) ==
    Response(200, "text/html", NoDate,
             "You're Offline <button onclick=location.reload()>Retry</button>", 0)

\* offlineResponse(request)
offlineResponse(req) ==
    IF req.html
    THEN Response(200, "text/html", NoDate,
                  "You're Offline <button onclick=location.reload()>Retry</button>", 0)
    ELSE Response(503, "text/plain", NoDate, "Offline", 0)

\* a fallback that hands the failure on: no response
NetworkErrorPropagated == Undefined

\* the fallback of cacheFirstStrategy
NetworkErrorResponse == Response(408, "text/plain", NoDate, "Network error occurred", 0)

\* a fallback to a page that install does not cache
ShellKeyNotCached == Url("https", <<"offline.html">>)

\* the key of the page network first falls back to: caches.match('/')
ShellKey == ROOT

\* ------------------------------------------------------------ cache first
\* new Date(headers.get('date')): a missing header gives the epoch
CacheDate(resp) == IF resp.date = NoDate THEN 0 ELSE resp.date

\* a staleness test that takes an entry without date header for fresh
IsStaleDatedOnly(resp, t) == resp.date # NoDate /\ t - resp.date > MAX_AGE_MS

\* now - cacheDate > MAX_AGE_MS
IsStale(resp, t) == t - CacheDate(resp) > MAX_AGE_MS

\* where caches.match finds its entry and when that entry was written, as a
\* list of at most one record
MatchedEntry(key) ==
    LET n == MatchCache(cacheNames, store, key)
    IN  IF n = "" THEN <<>> ELSE <<[cache |-> n, at |-> CacheEntry(store[n], key).at]>>

\* cacheFirstStrategy: await caches.match(request)
CacheFirstMatch(h) ==
    /\ hs[h].pc = "cf_match"
    /\ LET cached == CachesMatch(hs[h].req.url)
       IN  hs' = [hs EXCEPT ![h] =
                    IF cached # Undefined
                    THEN [@ EXCEPT !.ret = cached,
                                   !.hit = MatchedEntry(hs[h].req.url),
                                   !.seen = now,
                                   !.bg = IsStale(cached, now),
                                   !.pc = IF IsStale(cached, now) THEN "fc_fetch" ELSE "done"]
                    ELSE [@ EXCEPT !.missed = TRUE, !.seen = now, !.pc = "fc_fetch"]]
    /\ UNCHANGED <<background, pageEvents, routed, phase, gen, active, skipWaiting, cacheNames, store, now,
                   content, sendsDate, act, nreq, hist>>

\* a fetchAndCache that caches whatever the server answers
IsCacheableAnyResponse(resp) == TRUE

\* fetchAndCache caches the response: response.status === 200
IsCacheable(resp) == resp.status = 200

\* fetchAndCache: await fetch(request); a rejection reaches the catch of
\* cacheFirstStrategy only when the call was awaited
FetchAndCacheFetch(h) ==
    /\ hs[h].pc = "fc_fetch"
    /\ \E out \in FetchOutcomes(hs[h].req.url) :
         LET r == NetworkResponse(out, now, content, sendsDate)
         IN  hs' = [hs EXCEPT ![h] =
                CASE out = NetworkError /\ hs[h].bg ->
                        [@ EXCEPT !.netFailed = TRUE, !.pc = "done"]
                  [] out = NetworkError /\ ~hs[h].bg ->
                        [@ EXCEPT !.netFailed = TRUE,
                                  !.pc = "done",
                                  !.ret = IF hs[h].req.html THEN CachesMatch(ShellKey)
                                          ELSE NetworkErrorResponse]
                  [] out # NetworkError /\ IsCacheable(r) ->
                        [@ EXCEPT !.resp = r, !.pc = "cr_open"]
                  [] OTHER ->
                        [@ EXCEPT !.pc = "done", !.ret = IF hs[h].bg THEN @ ELSE r]]
    /\ UNCHANGED <<background, pageEvents, routed, phase, gen, active, skipWaiting, cacheNames, store, now,
                   content, sendsDate, act, nreq, hist>>

\* ---------------------------------------------------------- network first
\* networkFirstStrategy: await fetch(request); every response is cached
NetworkFirstFetch(h) ==
    /\ hs[h].pc = "nf_fetch"
    /\ \E out \in FetchOutcomes(hs[h].req.url) :
         hs' = [hs EXCEPT ![h] =
                  IF out = NetworkError
                  THEN [@ EXCEPT !.netFailed = TRUE, !.pc = "nf_match"]
                  ELSE [@ EXCEPT !.resp = NetworkResponse(out, now, content, sendsDate),
                                 !.pc = "cr_open"]]
    /\ UNCHANGED <<background, pageEvents, routed, phase, gen, active, skipWaiting, cacheNames, store, now,
                   content, sendsDate, act, nreq, hist>>

\* networkFirstStrategy, catch: await caches.match(request)
NetworkFirstMatch(h) ==
    /\ hs[h].pc = "nf_match"
    /\ LET cached == CachesMatch(hs[h].req.url)
       IN  hs' = [hs EXCEPT ![h] =
                    IF cached # Undefined
                    THEN [@ EXCEPT !.ret = cached,
                                   !.hit = MatchedEntry(hs[h].req.url),
                                   !.seen = now,
                                   !.pc = "done"]
                    ELSE IF hs[h].req.html
                    THEN [@ EXCEPT !.missed = TRUE, !.seen = now, !.pc = "nf_shell"]
                    ELSE [@ EXCEPT !.missed = TRUE, !.seen = now, !.pc = "done",
                                   !.ret = offlineResponse(hs[h].req)]]
    /\ UNCHANGED <<background, pageEvents, routed, phase, gen, active, skipWaiting, cacheNames, store, now,
                   content, sendsDate, act, nreq, hist>>

\* networkFirstStrategy, catch: return caches.match('/')
NetworkFirstShell(h) ==
    /\ hs[h].pc = "nf_shell"
    /\ hs' = [hs EXCEPT ![h] = [@ EXCEPT !.ret = CachesMatch(ShellKey), !.pc = "done"]]
    /\ UNCHANGED <<background, pageEvents, routed, phase, gen, active, skipWaiting, cacheNames, store, now,
                   content, sendsDate, act, nreq, hist>>

\* ---------------------------------------------------------- cacheResponse
\* estimate.usage / estimate.quota > 0.9
OverQuota(usage, quota) == usage * 10 > quota * 9

\* cacheResponse: await caches.open(DYNAMIC_CACHE_NAME)
CacheResponseOpen(h) ==
    /\ hs[h].pc = "cr_open"
    /\ cacheNames' = CachesOpen(cacheNames, DYNAMIC_CACHE_NAME)
    /\ hs' = [hs EXCEPT ![h].pc = "cr_estimate"]
    /\ UNCHANGED <<background, pageEvents, routed, phase, gen, active, skipWaiting, store, now, content,
                   sendsDate, act, nreq, hist>>

\* cacheResponse: await navigator.storage.estimate()
CacheResponseEstimate(h) ==
    /\ hs[h].pc = "cr_estimate"
    /\ \E usage \in UsageSamples :
         hs' = [hs EXCEPT ![h] =
                  [@ EXCEPT !.over = OverQuota(usage, Quota),
                            !.pc = IF OverQuota(usage, Quota) THEN "cr_keys" ELSE "cr_put"]]
    /\ UNCHANGED <<background, pageEvents, routed, phase, gen, active, skipWaiting, cacheNames, store, now,
                   content, sendsDate, act, nreq, hist>>

\* cacheResponse: await cache.keys(); oldestKey = keys[0]
CacheResponseKeys(h) ==
    /\ hs[h].pc = "cr_keys"
    /\ LET keys == CacheKeys(store[DYNAMIC_CACHE_NAME])
       IN  hs' = [hs EXCEPT ![h] =
                    IF keys = <<>>
                    THEN [@ EXCEPT !.oldest = <<>>, !.pc = "cr_put"]
                    ELSE [@ EXCEPT !.oldest = <<keys[1]>>, !.pc = "cr_delete"]]
    /\ UNCHANGED <<background, pageEvents, routed, phase, gen, active, skipWaiting, cacheNames, store, now,
                   content, sendsDate, act, nreq, hist>>

\* cacheResponse: await cache.delete(oldestKey)
CacheResponseDelete(h) ==
    /\ hs[h].pc = "cr_delete"
    /\ LET c == store[DYNAMIC_CACHE_NAME]
           key == hs[h].oldest[1]
       IN  /\ store' = [store EXCEPT ![DYNAMIC_CACHE_NAME] = CacheDelete(c, key)]
           /\ hs' = [hs EXCEPT ![h] =
                       [@ EXCEPT !.pc = "cr_put",
                                 !.evict = IF ~CacheHas(c, key) THEN "nothing"
                                           ELSE IF c[1].key = key THEN "first"
                                           ELSE "later"]]
    /\ UNCHANGED <<background, pageEvents, routed, phase, gen, active, skipWaiting, cacheNames, now, content,
                   sendsDate, act, nreq, hist>>

\* cacheResponse: await cache.put(request, response); the strategy returns
\* the network response to its caller
CacheResponsePut(h) ==
    /\ hs[h].pc = "cr_put"
    /\ store' = [store EXCEPT ![DYNAMIC_CACHE_NAME] =
                    CachePut(@, hs[h].req.url, hs[h].resp, now)]
    /\ hs' = [hs EXCEPT ![h] =
                [@ EXCEPT !.pc = "done", !.ret = IF hs[h].bg THEN @ ELSE hs[h].resp,
                          !.resp = Undefined, !.oldest = <<>>, !.over = FALSE,
                          !.evict = "none"]]
    /\ UNCHANGED <<background, pageEvents, routed, phase, gen, active, skipWaiting, cacheNames, now, content,
                   sendsDate, act, nreq, hist>>

\* the awaited calls of cacheResponse after caches.open
CacheResponseSteps == {"cr_estimate", "cr_keys", "cr_delete", "cr_put"}

\* a rejection of cacheResponse that the strategy swallows: it returns the
\* network response
CacheResponseFailsSwallowed(h) ==
    /\ hs[h].pc \in CacheResponseSteps
    /\ hs' = [hs EXCEPT ![h] =
                [@ EXCEPT !.writeFailed = TRUE, !.pc = "done",
                          !.ret = IF hs[h].bg THEN @ ELSE hs[h].resp,
                          !.oldest = <<>>, !.over = FALSE, !.evict = "none"]]
    /\ UNCHANGED <<background, pageEvents, routed, phase, gen, active, skipWaiting, cacheNames, store, now,
                   content, sendsDate, act, nreq, hist>>

\* cacheResponse: the awaited call (storage.estimate, cache.keys,
\* cache.delete or cache.put) rejects. Network first awaits cacheResponse
\* inside its try: its catch runs, as after a failed fetch. Cache first awaits
\* fetchAndCache inside its try when the request was not cached: its catch
\* runs; the rejection of the background fetchAndCache reaches no catch
CacheResponseFails(h) ==
    /\ hs[h].pc \in CacheResponseSteps
    /\ hs' = [hs EXCEPT ![h] =
                IF hs[h].strat = "networkFirst"
                THEN [@ EXCEPT !.writeFailed = TRUE, !.pc = "nf_match",
                               !.oldest = <<>>, !.over = FALSE, !.evict = "none"]
                ELSE IF hs[h].bg
                THEN [@ EXCEPT !.writeFailed = TRUE, !.pc = "done",
                               !.oldest = <<>>, !.over = FALSE, !.evict = "none"]
                ELSE [@ EXCEPT !.writeFailed = TRUE, !.pc = "done",
                               !.ret = IF hs[h].req.html THEN CachesMatch(ShellKey)
                                       ELSE NetworkErrorResponse,
                               !.oldest = <<>>, !.over = FALSE, !.evict = "none"]]
    /\ UNCHANGED <<background, pageEvents, routed, phase, gen, active, skipWaiting, cacheNames, store, now,
                   content, sendsDate, act, nreq, hist>>

\* ------------------------------------------------------------------- push
NOTIFICATION_ICON == "/assets/icons/icon-96x96.png"

\* the origin the worker is served from
ORIGIN == "https://tests-hub.example"

\* a URL as a notification carries it: written with its origin, or as a path
\* only (origin "")
Target(origin, path) == [origin |-> origin, path |-> path]

\* the string that was written
Href(t) == t.origin \o t.path

\* the absolute URL the string resolves to against the worker's location
Resolve(t) == ORIGIN \o t.path

\* data.url of a notification that has no data.url
NoTarget == Target("", "")

\* the fields a push payload may set, and the values it sets them to
PayloadFields == {"title", "body", "icon", "badge", "tag"}

PayloadValue ==
    [title |-> "X", body |-> "Y", icon |-> "/push/icon.png",
     badge |-> "/push/badge.png", tag |-> "news"]

\* event.data: kind "none" is no payload, "text" does not parse as JSON,
\* "value" is JSON that is no object (a string, a number, null), "object" is
\* a JSON object with the fields `has`, with a data member when hasData (its
\* url is `url`, or NoTarget when data has no url), and with the option dir
\* when dir is not ""
Payload(kind, text, has, hasData, url, dir) ==
    [kind |-> kind, text |-> text, has |-> has, hasData |-> hasData,
     url |-> url, dir |-> dir]

NoPayload == Payload("none", "", {}, FALSE, NoTarget, "")

JsonObject(has, hasData, url, dir) == Payload("object", "", has, hasData, url, dir)

Payloads ==
    {NoPayload, Payload("text", "hello", {}, FALSE, NoTarget, ""),
     Payload("value", "42", {}, FALSE, NoTarget, "")}
    \cup { JsonObject(has, FALSE, NoTarget, "") : has \in SUBSET PayloadFields }
    \cup { JsonObject({}, TRUE, u, "") :
              u \in {NoTarget, Target("", "/index.html"), Target(ORIGIN, "/index.html")} }
    \cup { JsonObject({"title"}, FALSE, NoTarget, d) : d \in {"rtl", "sideways"} }

\* a json() that takes every text for JSON
EventDataJsonThrowsNever(p) == FALSE

\* event.data.json() throws: the payload is no JSON text
EventDataJsonThrows(p) == p.kind = "text"

\* the notificationData the push handler starts from
DefaultNotification(t) ==
    [title |-> "Tests Hub",
     body |-> "New tests and updates available!",
     icon |-> NOTIFICATION_ICON,
     badge |-> NOTIFICATION_ICON,
     tag |-> "testshub-update",
     data |-> [url |-> Target("", "/"), timestamp |-> t],
     dir |-> ""]

\* a merge in which the defaults win over the payload
SpreadDefaultsFirst(d, p) == d

\* {...notificationData, ...data}: every member of the parsed payload
\* replaces the member of the same name, data as a whole; a JSON value
\* that is no object has no member of these names
Spread(d, p) ==
    IF p.kind # "object" THEN d
    ELSE [title |-> IF "title" \in p.has THEN PayloadValue.title ELSE d.title,
          body |-> IF "body" \in p.has THEN PayloadValue.body ELSE d.body,
          icon |-> IF "icon" \in p.has THEN PayloadValue.icon ELSE d.icon,
          badge |-> IF "badge" \in p.has THEN PayloadValue.badge ELSE d.badge,
          tag |-> IF "tag" \in p.has THEN PayloadValue.tag ELSE d.tag,
          data |-> IF p.hasData THEN [url |-> p.url, timestamp |-> NoDate] ELSE d.data,
          dir |-> IF p.dir # "" THEN p.dir ELSE d.dir]

\* the notificationData the push handler ends with
NotificationData(p, t) ==
    IF p.kind = "none" THEN DefaultNotification(t)
    ELSE IF EventDataJsonThrows(p)
    THEN [DefaultNotification(t) EXCEPT !.body = p.text]
    ELSE Spread(DefaultNotification(t), p)

\* showNotification(title, options) rejects with a TypeError when a member of
\* options is not of its type: dir is one of auto, ltr, rtl
ValidOptions(options) == options.dir \in {"", "auto", "ltr", "rtl"}

\* push event: waitUntil(showNotification(notificationData.title,
\* notificationData))
Push ==
    /\ active > 0
    /\ phase = "activated"
    /\ Len(shown) < MaxPushes
    /\ \E p \in Payloads :
         shown' = Append(shown, [payload |-> p,
                                 title |-> NotificationData(p, now).title,
                                 options |-> NotificationData(p, now),
                                 state |-> "pending",
                                 closed |-> FALSE,
                                 target |-> NoTarget])
    /\ UNCHANGED <<background, routed, pdf, clients, msg, port, skips, phase, gen, active,
                   skipWaiting, cacheNames, store, now, content, sendsDate, act,
                   hs, nreq, hist>>

\* the promise of showNotification settles, and the push event with it
ShowNotificationSettles ==
    /\ \E i \in 1..Len(shown) :
         /\ shown[i].state = "pending"
         /\ shown' = [shown EXCEPT ![i].state =
                         IF ValidOptions(shown[i].options) THEN "presented"
                         ELSE "rejected"]
    /\ UNCHANGED <<background, routed, pdf, clients, msg, port, skips, phase, gen, active,
                   skipWaiting, cacheNames, store, now, content, sendsDate, act,
                   hs, nreq, hist>>

\* ------------------------------------------------------- notificationclick
\* the pages of the site the user opens
PageUrls == {ORIGIN \o "/", ORIGIN \o "/index.html"}

Client(url, focused) == [url |-> url, focused |-> focused]

\* the window clients after client i got the focus
Focus(cs, i) == [ j \in 1..Len(cs) |-> Client(cs[j].url, j = i) ]

\* the user opens a page of the site: a new window client, focused
OpenPage ==
    /\ Len(clients) < MaxWindows
    /\ \E u \in PageUrls :
         clients' = Focus(Append(clients, Client(u, TRUE)), Len(clients) + 1)
    /\ UNCHANGED <<background, routed, pdf, shown, msg, port, skips, phase, gen, active,
                   skipWaiting, cacheNames, store, now, content, sendsDate, act,
                   hs, nreq, hist>>

\* a click that goes to '/' whatever the notification carries
UrlToOpenDefault(options) == Target("", "/")

\* event.notification.data?.url || '/'
UrlToOpen(options) ==
    IF options.data.url # NoTarget THEN options.data.url ELSE Target("", "/")

\* client.url === urlToOpen
ClientMatches(client, urlToOpen) == client.url = Href(urlToOpen)

\* notificationclick event: close the notification, then focus the first
\* window client whose url equals the target, or open a window at the target
\* (target: the urlToOpen of the click, kept for observation)
NotificationClick ==
    /\ \E i \in 1..Len(shown) :
         /\ shown[i].state = "presented"
         /\ ~shown[i].closed
         /\ shown' = [shown EXCEPT ![i].closed = TRUE,
                                   ![i].target = UrlToOpen(shown[i].options)]
         /\ LET urlToOpen == UrlToOpen(shown[i].options)
                found == { j \in 1..Len(clients) : ClientMatches(clients[j], urlToOpen) }
            IN  IF found # {}
                THEN clients' = Focus(clients, CHOOSE j \in found : \A k \in found : j <= k)
                ELSE clients' = Focus(Append(clients, Client(Resolve(urlToOpen), TRUE)),
                                      Len(clients) + 1)
    /\ UNCHANGED <<background, routed, pdf, msg, port, skips, phase, gen, active, skipWaiting,
                   cacheNames, store, now, content, sendsDate, act, hs, nreq, hist>>

\* ----------------------------------------------------------------- message
\* event.data.type ("" when the message has no type) and the number of ports
\* that came with the message
MessageData(type, ports) == [type |-> type, ports |-> ports]

Messages ==
    { MessageData(t, n) : t \in {"", "SKIP_WAITING", "GET_VERSION", "PING"},
                          n \in 0..1 }

\* a test that takes SKIP_WAITING for a request of the version as well
AsksVersionOrSkip(data) == data.type \in {"GET_VERSION", "SKIP_WAITING"}

\* event.data && event.data.type === 'SKIP_WAITING'
AsksSkipWaiting(data) == data.type = "SKIP_WAITING"

\* event.data && event.data.type === 'GET_VERSION'
AsksVersion(data) == data.type = "GET_VERSION"

\* what the handler posts on event.ports[0]
VersionReply == [version |-> "2.0.0", cacheName |-> CACHE_NAME]

\* message event; event.ports[0].postMessage throws when no port came
Message ==
    /\ phase # "none"
    /\ Len(msg) < MaxMessages
    /\ \E data \in Messages :
         /\ msg' = Append(msg, data)
         /\ skipWaiting' = IF AsksSkipWaiting(data) THEN TRUE ELSE skipWaiting
         /\ skips' = IF AsksSkipWaiting(data) THEN skips + 1 ELSE skips
         /\ port' = IF AsksVersion(data) /\ data.ports > 0
                    THEN Append(port, VersionReply) ELSE port
    /\ UNCHANGED <<background, routed, pdf, shown, clients, phase, gen, active, cacheNames, store,
                   now, content, sendsDate, act, hs, nreq, hist>>

\* ------------------------------------------------------------ periodicsync
\* the pages updateCachedContent refreshes; the Tests_*.html pages are
\* refreshed exactly like /index.html and are left out
pagesToUpdate == <<ROOT, INDEX>>

\* the tags a periodicsync event comes with
SyncTags == {"update-content", "other"}

\* pc: where the run is; i: the page of the list it is at; fetched: the
\* URLs it fetched, in order; notice: the showNotification call at its end;
\* runs: periodicsync events so far
NoUpdate ==
    [pc |-> "idle", tag |-> "", i |-> 0, resp |-> Undefined, fetched |-> <<>>,
     notice |-> "none", runs |-> 0]

\* a run that ends without the showNotification call
NextPageNoNotice(u) ==
    IF u.i < Len(pagesToUpdate)
    THEN [u EXCEPT !.i = u.i + 1, !.resp = Undefined, !.pc = "fetch"]
    ELSE [u EXCEPT !.resp = Undefined, !.pc = "done"]

\* the run after page i is dealt with: the next page, or, after the last
\* one, the showNotification call (not awaited) and the return
NextPage(u) ==
    IF u.i < Len(pagesToUpdate)
    THEN [u EXCEPT !.i = u.i + 1, !.resp = Undefined, !.pc = "fetch"]
    ELSE [u EXCEPT !.resp = Undefined, !.notice = "pending", !.pc = "done"]

\* periodicsync event: waitUntil(updateCachedContent()) when the tag is
\* 'update-content', nothing otherwise
PeriodicSync ==
    /\ active > 0
    /\ phase = "activated"
    /\ upd.pc \in {"idle", "done"}
    /\ upd.runs < MaxSyncs
    /\ \E tag \in SyncTags :
         upd' = IF tag = "update-content"
                THEN [NoUpdate EXCEPT !.pc = "fetch", !.tag = tag, !.i = 1,
                                      !.runs = upd.runs + 1]
                ELSE [NoUpdate EXCEPT !.pc = "done", !.tag = tag,
                                      !.runs = upd.runs + 1]
    /\ UNCHANGED <<swp, pageEvents, routed, phase, gen, active, skipWaiting,
                   cacheNames, store, now, content, sendsDate, act, hs, nreq, hist>>

\* updateCachedContent: await fetch(url); a rejection is caught and logged,
\* a response that is not ok is skipped
UpdateFetch ==
    /\ upd.pc = "fetch"
    /\ \E out \in FetchOutcomes(pagesToUpdate[upd.i]) :
         LET r == NetworkResponse(out, now, content, sendsDate)
             u == [upd EXCEPT !.fetched = Append(@, pagesToUpdate[upd.i])]
         IN  upd' = IF out # NetworkError /\ Ok(r)
                    THEN [u EXCEPT !.resp = r, !.pc = "open"]
                    ELSE NextPage(u)
    /\ UNCHANGED <<swp, pageEvents, routed, phase, gen, active, skipWaiting,
                   cacheNames, store, now, content, sendsDate, act, hs, nreq, hist>>

\* updateCachedContent: await caches.open(DYNAMIC_CACHE_NAME)
UpdateOpen ==
    /\ upd.pc = "open"
    /\ cacheNames' = CachesOpen(cacheNames, DYNAMIC_CACHE_NAME)
    /\ upd' = [upd EXCEPT !.pc = "put"]
    /\ UNCHANGED <<swp, pageEvents, routed, phase, gen, active, skipWaiting,
                   store, now, content, sendsDate, act, hs, nreq, hist>>

\* updateCachedContent: await cache.put(url, response); a sweep that is
\* under way or complete has seen a write since it started
UpdatePut ==
    /\ upd.pc = "put"
    /\ store' = [store EXCEPT ![DYNAMIC_CACHE_NAME] =
                    CachePut(@, pagesToUpdate[upd.i], upd.resp, now)]
    /\ upd' = NextPage(upd)
    /\ swp' = [swp EXCEPT !.disturbed = @ \/ swp.pc # "idle"]
    /\ UNCHANGED <<pageEvents, routed, phase, gen, active, skipWaiting,
                   cacheNames, now, content, sendsDate, act, hs, nreq, hist>>

\* the promise of the showNotification call settles
UpdateNotificationSettles ==
    /\ upd.notice = "pending"
    /\ upd' = [upd EXCEPT !.notice = "presented"]
    /\ UNCHANGED <<swp, pageEvents, routed, phase, gen, active, skipWaiting,
                   cacheNames, store, now, content, sendsDate, act, hs, nreq, hist>>

\* ------------------------------------------------------------------- sweep
\* pc: where the run is; requests: the keys it read; i: the key it is at;
\* t: its Date.now(); before: the dynamic cache as it read it; disturbed:
\* the dynamic cache was written since the run started; runs: runs so far
NoSweep ==
    [pc |-> "idle", requests |-> <<>>, i |-> 0, t |-> 0, before |-> <<>>,
     disturbed |-> FALSE, runs |-> 0]

\* the run after key i is dealt with
NextKey(w) ==
    IF w.i < Len(w.requests)
    THEN [w EXCEPT !.i = w.i + 1, !.pc = "match"]
    ELSE [w EXCEPT !.pc = "done"]

\* the sweep deletes the entry: it has a date header, and
\* now - cachedDate > MAX_AGE_MS
SweepDeletes(resp, t) == resp.date # NoDate /\ t - resp.date > MAX_AGE_MS

\* the timer fires: cleanupOldCacheEntries, await caches.open
SweepStart ==
    /\ phase # "none"
    /\ swp.pc \in {"idle", "done"}
    /\ swp.runs < MaxSweeps
    /\ cacheNames' = CachesOpen(cacheNames, DYNAMIC_CACHE_NAME)
    /\ swp' = [NoSweep EXCEPT !.pc = "keys", !.runs = swp.runs + 1]
    /\ UNCHANGED <<upd, pageEvents, routed, phase, gen, active, skipWaiting,
                   store, now, content, sendsDate, act, hs, nreq, hist>>

\* cleanupOldCacheEntries: await cache.keys(); now = Date.now()
SweepKeys ==
    /\ swp.pc = "keys"
    /\ LET requests == CacheKeys(store[DYNAMIC_CACHE_NAME])
       IN  swp' = [swp EXCEPT !.requests = requests,
                              !.t = now,
                              !.before = store[DYNAMIC_CACHE_NAME],
                              !.i = IF requests = <<>> THEN 0 ELSE 1,
                              !.pc = IF requests = <<>> THEN "done" ELSE "match"]
    /\ UNCHANGED <<upd, pageEvents, routed, phase, gen, active, skipWaiting,
                   cacheNames, store, now, content, sendsDate, act, hs, nreq, hist>>

\* cleanupOldCacheEntries: await cache.match(request) and the test of its
\* date header
SweepMatch ==
    /\ swp.pc = "match"
    /\ LET response == CacheMatch(store[DYNAMIC_CACHE_NAME], swp.requests[swp.i])
       IN  swp' = IF response # Undefined /\ SweepDeletes(response, swp.t)
                  THEN [swp EXCEPT !.pc = "delete"]
                  ELSE NextKey(swp)
    /\ UNCHANGED <<upd, pageEvents, routed, phase, gen, active, skipWaiting,
                   cacheNames, store, now, content, sendsDate, act, hs, nreq, hist>>

\* cleanupOldCacheEntries: await cache.delete(request)
SweepDelete ==
    /\ swp.pc = "delete"
    /\ store' = [store EXCEPT ![DYNAMIC_CACHE_NAME] =
                    CacheDelete(@, swp.requests[swp.i])]
    /\ swp' = NextKey(swp)
    /\ UNCHANGED <<upd, pageEvents, routed, phase, gen, active, skipWaiting,
                   cacheNames, now, content, sendsDate, act, hs, nreq, hist>>

\* ----------------------------------------------------------- export helper
\* pc: generatePDFWithCanvas was called; totalImages, imagesLoaded: its
\* counters; complete: images that were complete at the call; placeholders:
\* images replaced by a placeholder; waiting: images whose onload/onerror is
\* still to come;
\* captureTimers: pending 100 ms timeouts; timeout: the 3 s timeout is
\* pending; calls: calls of captureAndGeneratePDF; attached: tempContainer
\* is in the document; rendering: html2canvas promises pending; files: the
\* files saved, in order
NoExport ==
    [pc |-> "idle", totalImages |-> 0, imagesLoaded |-> 0, complete |-> 0,
     placeholders |-> 0, waiting |-> 0,
     captureTimers |-> 0, timeout |-> FALSE, calls |-> 0, attached |-> FALSE,
     rendering |-> 0, files |-> <<>>]

\* checkImagesAndCapture: imagesLoaded++, and the 100 ms timeout when
\* imagesLoaded >= totalImages
checkImagesAndCapture(p) ==
    LET q == [p EXCEPT !.imagesLoaded = @ + 1]
    IN  IF q.imagesLoaded >= q.totalImages
        THEN [q EXCEPT !.captureTimers = @ + 1]
        ELSE q

\* images.forEach over k images that are complete
RECURSIVE CheckComplete(_, _)
CheckComplete(p, k) ==
    IF k = 0 THEN p ELSE CheckComplete(checkImagesAndCapture(p), k - 1)

\* captureAndGeneratePDF: generateTextPDF (which saves a file) when the
\* container was removed, html2canvas otherwise
captureAndGeneratePDF(p) ==
    LET q == [p EXCEPT !.calls = @ + 1]
    IN  IF ~q.attached
        THEN [q EXCEPT !.files = Append(@, "text")]
        ELSE [q EXCEPT !.rendering = @ + 1]

\* generatePDFWithCanvas on a page with n images, k of them complete
generatePDFWithCanvas ==
    /\ pdf.pc = "idle"
    /\ \E n \in 0..MaxImages : \E k \in 0..n :
         LET p == [NoExport EXCEPT !.pc = "started", !.attached = TRUE,
                                   !.totalImages = n, !.complete = k,
                                   !.waiting = n - k]
         IN  pdf' = IF n = 0
                    THEN [p EXCEPT !.captureTimers = 1]
                    ELSE [CheckComplete(p, k) EXCEPT !.timeout = TRUE]
    /\ UNCHANGED <<background, routed, shown, clients, msg, port, skips, phase, gen,
                   active, skipWaiting, cacheNames, store, now, content, sendsDate,
                   act, hs, nreq, hist>>

\* img.onload: checkImagesAndCapture
ImageLoads ==
    /\ pdf.waiting > 0
    /\ pdf' = checkImagesAndCapture([pdf EXCEPT !.waiting = @ - 1])
    /\ UNCHANGED <<background, routed, shown, clients, msg, port, skips, phase, gen,
                   active, skipWaiting, cacheNames, store, now, content, sendsDate,
                   act, hs, nreq, hist>>

\* img.onerror: the image is replaced by a placeholder, then
\* checkImagesAndCapture
ImageFails ==
    /\ pdf.waiting > 0
    /\ pdf' = checkImagesAndCapture([pdf EXCEPT !.waiting = @ - 1,
                                                !.placeholders = @ + 1])
    /\ UNCHANGED <<background, routed, shown, clients, msg, port, skips, phase, gen,
                   active, skipWaiting, cacheNames, store, now, content, sendsDate,
                   act, hs, nreq, hist>>

\* a 100 ms timeout fires
CaptureTimerFires ==
    /\ pdf.captureTimers > 0
    /\ pdf' = captureAndGeneratePDF([pdf EXCEPT !.captureTimers = @ - 1])
    /\ UNCHANGED <<background, routed, shown, clients, msg, port, skips, phase, gen,
                   active, skipWaiting, cacheNames, store, now, content, sendsDate,
                   act, hs, nreq, hist>>

\* the 3 s timeout fires: nothing clears it
TimeoutFires ==
    /\ pdf.timeout
    /\ pdf' = captureAndGeneratePDF([pdf EXCEPT !.timeout = FALSE])
    /\ UNCHANGED <<background, routed, shown, clients, msg, port, skips, phase, gen,
                   active, skipWaiting, cacheNames, store, now, content, sendsDate,
                   act, hs, nreq, hist>>

\* the promise of html2canvas settles: the container is removed; doc.save
\* when it resolved, generateTextPDF when it rejected
Html2CanvasSettles ==
    /\ pdf.rendering > 0
    /\ \E kind \in {"canvas", "text"} :
         pdf' = [pdf EXCEPT !.rendering = @ - 1,
                            !.attached = FALSE,
                            !.files = Append(@, kind)]
    /\ UNCHANGED <<background, routed, shown, clients, msg, port, skips, phase, gen,
                   active, skipWaiting, cacheNames, store, now, content, sendsDate,
                   act, hs, nreq, hist>>

\* ------------------------------------------------------------------- spec
\* what an earlier version left in its caches
OldEntry == Entry(ROOT, NetworkResponse(200, 1, 0, TRUE), 1)

\* the script was just registered; the cache storage is one of `priors`
InitFrom(priors) ==
    /\ phase = "none"
    /\ gen = 0
    /\ active = 0
    /\ skipWaiting = FALSE
    /\ cacheNames \in priors
    /\ store = [n \in AllCacheNames |->
                  IF n \in Range(cacheNames) THEN <<OldEntry>> ELSE <<>>]
    /\ now = T0
    /\ content = 1
    /\ sendsDate \in BOOLEAN
    /\ act = NoActivation
    /\ hs = [h \in H |-> IdleHandler]
    /\ nreq = 0
    /\ hist = [createdStatic |-> FALSE, installFailed |-> FALSE,
               lastOut |-> <<>>, repeated |-> FALSE, served |-> <<>>]
    /\ routed = <<>>
    /\ shown = <<>>
    /\ clients = <<>>
    /\ msg = <<>>
    /\ port = <<>>
    /\ skips = 0
    /\ upd = NoUpdate
    /\ swp = NoSweep
    /\ pdf = NoExport

\* the caches of the previous version are there
Init == InitFrom({<<"tests-hub-static-v2.1.6", "tests-hub-dynamic-v2.1.6">>})

\* any of the prior cache storages
InitLifecycle == InitFrom(PriorCacheLists)

\* the steps of the fetch handlers
Serve ==
    \/ FetchEventIgnored
    \/ FetchEvent
    \/ \E h \in H : CacheFirstMatch(h)
    \/ \E h \in H : FetchAndCacheFetch(h)
    \/ \E h \in H : NetworkFirstFetch(h)
    \/ \E h \in H : NetworkFirstMatch(h)
    \/ \E h \in H : NetworkFirstShell(h)
    \/ \E h \in H : CacheResponseOpen(h)
    \/ \E h \in H : CacheResponseEstimate(h)
    \/ \E h \in H : CacheResponseKeys(h)
    \/ \E h \in H : CacheResponseDelete(h)
    \/ \E h \in H : CacheResponsePut(h)

\* the first install of this version of the script
FirstInstall == gen = 0 /\ InstallStart

\* one worker instance: installed, activated, then serving
Next ==
    \/ FirstInstall
    \/ InstallFinish
    \/ ActivateStart
    \/ DeleteOldCache
    \/ ClaimClients
    \/ ActivateDone
    \/ Serve
    \/ Tick
    \/ Deploy

Spec == Init /\ [][Next]_vars

\* installs and activations, repeated, with deletions that may fail
NextLifecycle ==
    \/ InstallStart
    \/ InstallFinish
    \/ ActivateStart
    \/ DeleteOldCache
    \/ DeleteOldCacheFails
    \/ ClaimClients
    \/ ActivateDone
    \/ Tick
    \/ Deploy

SpecLifecycle == InitLifecycle /\ [][NextLifecycle]_vars

\* one worker instance, installed and activated, and the pushes and the
\* notification clicks it gets while the user opens pages
NextNotifications ==
    \/ FirstInstall
    \/ InstallFinish
    \/ ActivateStart
    \/ DeleteOldCache
    \/ ClaimClients
    \/ ActivateDone
    \/ Push
    \/ ShowNotificationSettles
    \/ OpenPage
    \/ NotificationClick

SpecNotifications == Init /\ [][NextNotifications]_vars

\* one worker instance and the messages its pages send it
NextMessages ==
    \/ FirstInstall
    \/ InstallFinish
    \/ ActivateStart
    \/ DeleteOldCache
    \/ ClaimClients
    \/ ActivateDone
    \/ Message

SpecMessages == Init /\ [][NextMessages]_vars

\* one worker instance serving requests within one week and one revision
\* of the site
NextServing ==
    \/ FirstInstall
    \/ InstallFinish
    \/ ActivateStart
    \/ DeleteOldCache
    \/ ClaimClients
    \/ ActivateDone
    \/ Serve

SpecServing == Init /\ [][NextServing]_vars

\* one worker instance, its periodic refreshes and its sweeps, over weeks
NextBackground ==
    \/ FirstInstall
    \/ InstallFinish
    \/ ActivateStart
    \/ DeleteOldCache
    \/ ClaimClients
    \/ ActivateDone
    \/ PeriodicSync
    \/ UpdateFetch
    \/ UpdateOpen
    \/ UpdatePut
    \/ UpdateNotificationSettles
    \/ SweepStart
    \/ SweepKeys
    \/ SweepMatch
    \/ SweepDelete
    \/ Tick

SpecBackground == Init /\ [][NextBackground]_vars

\* one worker instance serving requests while the storage may fail a call
\* of cacheResponse
NextWriteThrough ==
    \/ NextServing
    \/ \E h \in H : CacheResponseFails(h)

SpecWriteThrough == Init /\ [][NextWriteThrough]_vars

\* one worker instance with everything that works on the cache storage: the
\* fetch handlers, the periodic refreshes and the sweeps
StorageEvents == nreq + upd.runs + swp.runs

NextStorage ==
    \/ FirstInstall
    \/ InstallFinish
    \/ ActivateStart
    \/ DeleteOldCache
    \/ ClaimClients
    \/ ActivateDone
    \/ StorageEvents < MaxStorageEvents /\ FetchEventIgnored
    \/ StorageEvents < MaxStorageEvents /\ FetchEvent
    \/ StorageEvents < MaxStorageEvents /\ PeriodicSync
    \/ StorageEvents < MaxStorageEvents /\ SweepStart
    \/ \E h \in H : CacheFirstMatch(h)
    \/ \E h \in H : FetchAndCacheFetch(h)
    \/ \E h \in H : NetworkFirstFetch(h)
    \/ \E h \in H : NetworkFirstMatch(h)
    \/ \E h \in H : NetworkFirstShell(h)
    \/ \E h \in H : CacheResponseOpen(h)
    \/ \E h \in H : CacheResponseEstimate(h)
    \/ \E h \in H : CacheResponseKeys(h)
    \/ \E h \in H : CacheResponseDelete(h)
    \/ \E h \in H : CacheResponsePut(h)
    \/ UpdateFetch
    \/ UpdateOpen
    \/ UpdatePut
    \/ UpdateNotificationSettles
    \/ SweepKeys
    \/ SweepMatch
    \/ SweepDelete
    \/ Tick

SpecStorage == Init /\ [][NextStorage]_vars

\* one worker instance, its fetch handlers and its sweeps, over weeks, with a
\* server whose responses do not always have a Date header
NextSweeping ==
    \/ FirstInstall
    \/ InstallFinish
    \/ ActivateStart
    \/ DeleteOldCache
    \/ ClaimClients
    \/ ActivateDone
    \/ StorageEvents < MaxStorageEvents /\ FetchEventIgnored
    \/ StorageEvents < MaxStorageEvents /\ FetchEvent
    \/ StorageEvents < MaxStorageEvents /\ SweepStart
    \/ \E h \in H : CacheFirstMatch(h)
    \/ \E h \in H : FetchAndCacheFetch(h)
    \/ \E h \in H : NetworkFirstFetch(h)
    \/ \E h \in H : NetworkFirstMatch(h)
    \/ \E h \in H : NetworkFirstShell(h)
    \/ \E h \in H : CacheResponseOpen(h)
    \/ \E h \in H : CacheResponseEstimate(h)
    \/ \E h \in H : CacheResponseKeys(h)
    \/ \E h \in H : CacheResponseDelete(h)
    \/ \E h \in H : CacheResponsePut(h)
    \/ SweepKeys
    \/ SweepMatch
    \/ SweepDelete
    \/ Tick
    \/ DateHeaderDropped

SpecSweeping == Init /\ [][NextSweeping]_vars

\* one call of the export helper on a page
NextExport ==
    \/ generatePDFWithCanvas
    \/ ImageLoads
    \/ ImageFails
    \/ CaptureTimerFires
    \/ TimeoutFires
    \/ Html2CanvasSettles

SpecExport == Init /\ [][NextExport]_vars

\* ----------------------------------------------------------------- claims
\* a cache as its keys and responses, without the instants of writing
Contents(c) == [ i \in 1..Len(c) |-> [key |-> c[i].key, resp |-> c[i].resp] ]

\* C1: a cache-first request that hits an entry written at most 7 days
\* before gets the stored response and starts no network fetch, neither
\* awaited nor in the background.
C1_FreshHitNoFetch ==
    \A h \in H :
        ( /\ hs[h].strat = "cacheFirst"
          /\ hs[h].hit # <<>>
          /\ hs[h].seen - hs[h].hit[1].at <= MAX_AGE_MS )
        => ( /\ ~hs[h].bg
             /\ hs[h].pc = "done"
             /\ hs[h].ret # Pending )

\* C2: a cache-first request that hits a stale entry of the static cache is
\* answered with the stale response while the refresh is still to be fetched,
\* and when the refresh has been written the next caches.match of the request
\* returns the refreshed response.
C2_StaleStaticRefreshed ==
    [][ \A h \in H :
          /\ ( /\ hs[h].pc = "cf_match"
               /\ hs'[h].pc # "cf_match"
               /\ hs'[h].hit # <<>>
               /\ hs'[h].hit[1].cache = STATIC_CACHE_NAME
               /\ now - hs'[h].hit[1].at > MAX_AGE_MS )
             => ( /\ hs'[h].ret = CachesMatch(hs[h].req.url)
                  /\ hs'[h].bg
                  /\ hs'[h].pc = "fc_fetch" )
          /\ ( /\ hs[h].pc = "cr_put"
               /\ hs'[h].pc = "done"
               /\ hs[h].bg
               /\ hs[h].hit[1].cache = STATIC_CACHE_NAME
               /\ hs[h].seen - hs[h].hit[1].at > MAX_AGE_MS )
             => CachesMatch(hs[h].req.url)' = hs[h].resp
      ]_vars

\* C3: when network first has fetched a document, the caller gets the live
\* response, and a caches.match of the same request right afterwards (what a
\* request made with the network unreachable is answered with) returns that
\* same response.
C3_DocumentPersisted ==
    [][ \A h \in H :
          ( /\ hs[h].strat = "networkFirst"
            /\ hs[h].req.html
            /\ Ok(hs[h].resp)
            /\ hs[h].pc = "cr_put"
            /\ hs'[h].pc = "done" )
          => ( /\ hs'[h].ret = hs[h].resp
               /\ CachesMatch(hs[h].req.url)' = hs[h].resp )
      ]_vars

\* C4: a document request whose fetch failed and that no cache entry matched
\* is answered with the synthesized offline page: text/html, status 200, with
\* a retry control.
C4_OfflinePage ==
    \A h \in H :
        ( /\ hs[h].strat = "networkFirst"
          /\ hs[h].req.html
          /\ hs[h].netFailed
          /\ hs[h].missed
          /\ hs[h].pc = "done" )
        => ( /\ hs[h].ret = offlineResponse(hs[h].req)
             /\ hs[h].ret.status = 200
             /\ hs[h].ret.ctype = "text/html" )

\* C5: a strategy whose network fetch failed resolves to a defined response,
\* a cached entry or a synthesized one, never to undefined; and while it has
\* not resolved it is on its way to the cache lookup that resolves it.
C5_FailureStillAnswers ==
    \A h \in H :
        hs[h].netFailed =>
            \/ hs[h].pc = "done" /\ hs[h].ret # Undefined /\ hs[h].ret # Pending
            \/ hs[h].pc \in {"nf_match", "nf_shell"} /\ hs[h].strat = "networkFirst"

\* C5, witness: a document whose fetch failed and that no entry matched was
\* answered with the cached shell.
C5_Witness ==
    \E h \in H :
        /\ hs[h].netFailed /\ hs[h].missed /\ hs[h].req.html
        /\ hs[h].pc = "done"
        /\ hs[h].ret = CacheMatch(store[STATIC_CACHE_NAME], ROOT)

C7_InstallAllOrNothing ==
    [][ /\ (phase # "installing" /\ phase' = "installing")
           => ( /\ store' = store
                /\ \A i \in 1..Len(cacheNames) : cacheNames'[i] = cacheNames[i] )
        /\ ( /\ phase = "installing"
             /\ phase' # "installing"
             /\ \E i \in 1..Len(hist'.lastOut) :
                   hist'.lastOut[i] \notin 200..299 )
           => ( /\ phase' = "redundant"
                /\ cacheNames' = cacheNames
                /\ store' = store
                /\ (hist.createdStatic => store'[STATIC_CACHE_NAME] = <<>>) )
      ]_vars

\* C7, witness: an install that got some of its responses and failed on
\* another, with caches of a previous version in the storage.
C7_Witness ==
    /\ phase = "redundant"
    /\ hist.installFailed
    /\ hist.createdStatic
    /\ Len(cacheNames) = 3
    /\ \E i, j \in 1..Len(hist.lastOut) :
          hist.lastOut[i] = 200 /\ hist.lastOut[j] = NetworkError

\* C8: an install that gets the responses the previous install got leaves
\* the static cache with the keys and responses it had.
C8_InstallIdempotent ==
    [][ ( /\ phase = "installing"
          /\ phase' = "installed"
          /\ hist.served = hist'.served )
        => Contents(store'[STATIC_CACHE_NAME]) = Contents(store[STATIC_CACHE_NAME])
      ]_vars

\* C8, witness: the install was repeated with unchanged responses.
C8_Witness ==
    /\ hist.repeated
    /\ gen = 2
    /\ phase = "installed"
    /\ Len(store[STATIC_CACHE_NAME]) = Len(STATIC_ASSETS)

\* C9: a write that found the storage over 90% of the quota and the dynamic
\* cache not empty has, when it comes to its put, removed exactly one entry,
\* the first-inserted one.
C9_EvictsFirstInserted ==
    \A h \in H :
        (hs[h].pc = "cr_put" /\ hs[h].over /\ hs[h].oldest # <<>>)
        => hs[h].evict = "first"

\* C10: every entry of the dynamic cache is a successful (2xx) response.
C10_DynamicOnlySuccessful ==
    \A i \in 1..Len(store[DYNAMIC_CACHE_NAME]) :
        Ok(store[DYNAMIC_CACHE_NAME][i].resp)

\* the class of a request: api, document or asset
ClassOf(req) ==
    IF IsApi(req.url) THEN "api"
    ELSE IF req.html THEN "document"
    ELSE "asset"

\* the strategy that serves a class
StrategyOfClass(class) ==
    IF class \in {"api", "document"} THEN "networkFirst" ELSE "cacheFirst"

\* C11: every GET request with a scheme other than chrome-extension is served
\* by the strategy of its class (api and document: network first, asset:
\* cache first), whatever the caches hold and whatever was requested before;
\* this holds of the last fetch event and of every handler in flight.
C11_RoutingByClass ==
    /\ \A i \in 1..Len(routed) :
          (routed[i].req.method = "GET" /\ routed[i].req.url.scheme # "chrome-extension")
          => routed[i].strat = StrategyOfClass(ClassOf(routed[i].req))
    /\ \A h \in H :
          hs[h].pc # "idle" => hs[h].strat = StrategyOfClass(ClassOf(hs[h].req))

\* C11, witness: the last of MaxFetchEvents requests, an api request made
\* while the dynamic cache holds entries, went to network first.
C11_Witness ==
    /\ nreq = MaxFetchEvents
    /\ store[DYNAMIC_CACHE_NAME] # <<>>
    /\ routed = <<[req |-> Request(APIDATA, "GET", FALSE), strat |-> "networkFirst"]>>

\* C12: a fetch event whose request is not a GET or has the chrome-extension
\* scheme gets no respondWith, starts no handler (hence no fetch) and leaves
\* the cache storage and every cache as they were.
C12_PassThroughUntouched ==
    [][ ( /\ nreq' # nreq
          /\ \/ routed'[1].req.method # "GET"
             \/ routed'[1].req.url.scheme = "chrome-extension" )
        => ( /\ routed'[1].strat = "passthrough"
             /\ hs' = hs
             /\ cacheNames' = cacheNames
             /\ store' = store )
      ]_vars

\* C12, witness: a POST was the last fetch event, after another handler
\* filled the dynamic cache.
C12_Witness ==
    /\ routed = <<[req |-> Request(APIDATA, "POST", FALSE), strat |-> "passthrough"]>>
    /\ store[DYNAMIC_CACHE_NAME] # <<>>
    /\ nreq > 1

\* C13: the notification shown for a payload that is a JSON object has each
\* of title, body, icon, badge, tag from the payload when the payload has it
\* and from the default notification when it has not.
C13_PayloadOverDefaults ==
    \A i \in 1..Len(shown) :
        (shown[i].payload.kind = "object" /\ shown[i].state = "presented")
        => /\ \A k \in PayloadFields :
                shown[i].options[k] =
                    IF k \in shown[i].payload.has THEN PayloadValue[k]
                    ELSE DefaultNotification(now)[k]
           /\ shown[i].title = shown[i].options.title

\* C13, witness: a payload with only title X and body Y was shown with the
\* default icon and the default tag.
C13_Witness ==
    \E i \in 1..Len(shown) :
        /\ shown[i].payload = JsonObject({"title", "body"}, FALSE, NoTarget, "")
        /\ shown[i].state = "presented"
        /\ shown[i].title = "X"
        /\ shown[i].options.body = "Y"
        /\ shown[i].options.icon = NOTIFICATION_ICON
        /\ shown[i].options.tag = "testshub-update"

\* C14: the notification for a payload that does not parse as JSON has the
\* raw text as its body and the default title, icon, badge, tag and click
\* target.
C14_PlainTextBody ==
    \A i \in 1..Len(shown) :
        shown[i].payload.kind = "text"
        => /\ shown[i].options.body = shown[i].payload.text
           /\ shown[i].title = "Tests Hub"
           /\ shown[i].options.title = "Tests Hub"
           /\ shown[i].options.icon = NOTIFICATION_ICON
           /\ shown[i].options.badge = NOTIFICATION_ICON
           /\ shown[i].options.tag = "testshub-update"
           /\ UrlToOpen(shown[i].options) = Target("", "/")
           /\ shown[i].state \in {"pending", "presented"}

\* C14, witness: the payload hello was presented.
C14_Witness ==
    \E i \in 1..Len(shown) :
        /\ shown[i].payload.kind = "text"
        /\ shown[i].options.body = "hello"
        /\ shown[i].state = "presented"

\* C15: no push event, whatever its payload, completes without its
\* notification having been presented: the one showNotification call of the
\* event does not reject.
C15_PushAlwaysNotifies ==
    \A i \in 1..Len(shown) : shown[i].state \in {"pending", "presented"}

\* C16: a click closes the notification; when a window client is open at the
\* URL the notification's target resolves to, a client at that URL is focused
\* and no window is opened; when none is, exactly one window is opened, at
\* the target.
C16_FocusOrOpen ==
    [][ \A i \in 1..Len(shown) :
          (~shown[i].closed /\ shown'[i].closed)
          => LET target == Resolve(UrlToOpen(shown[i].options))
                 open == { j \in 1..Len(clients) : clients[j].url = target }
             IN  IF open # {}
                 THEN /\ Len(clients') = Len(clients)
                      /\ \E j \in open : clients'[j].focused
                 ELSE /\ Len(clients') = Len(clients) + 1
                      /\ clients'[Len(clients')].url = target
      ]_vars

\* C17: SKIP_WAITING calls skipWaiting and posts nothing; GET_VERSION with a
\* reply port posts exactly one reply {version, cacheName} and does not call
\* skipWaiting; every other message posts nothing, calls nothing and leaves
\* the lifecycle as it was.
C17_TwoMessageKinds ==
    [][ (Len(msg') > Len(msg))
        => LET data == msg'[Len(msg')]
           IN  /\ data.type = "SKIP_WAITING"
                  => (skips' = skips + 1 /\ skipWaiting' /\ port' = port)
               /\ (data.type = "GET_VERSION" /\ data.ports > 0)
                  => ( /\ Len(port') = Len(port) + 1
                       /\ SubSeq(port', 1, Len(port)) = port
                       /\ DOMAIN port'[Len(port')] = {"version", "cacheName"}
                       /\ skips' = skips
                       /\ skipWaiting' = skipWaiting )
               /\ data.type \notin {"SKIP_WAITING", "GET_VERSION"}
                  => ( /\ port' = port
                       /\ skips' = skips
                       /\ skipWaiting' = skipWaiting
                       /\ phase' = phase
                       /\ active' = active )
      ]_vars

\* C17, witness: a SKIP_WAITING and a GET_VERSION were handled: one call of
\* skipWaiting, one reply.
C17_Witness ==
    /\ Len(msg) = 2
    /\ skips = 1
    /\ Len(port) = 1

\* C18: the version of a GET_VERSION reply is the version tag of the cache
\* names: the cacheName of the same reply is tests-hub-v followed by it.
C18_VersionIsCurrent ==
    \A i \in 1..Len(port) :
        /\ port[i].cacheName = CACHE_NAME
        /\ port[i].cacheName = "tests-hub-v" \o port[i].version

\* C19: while an activation none of whose deletions failed is under way or
\* complete, the clients are claimed only when no cache of another name
\* than the three current ones exists.
C19_ClaimAfterCleanup ==
    (phase \in {"activating", "activated"} /\ act.claimed /\ ~act.failed)
    => Range(cacheNames) \subseteq CurrentCacheNames

\* C20: an activation one of whose deletions failed is not reported as
\* failed: the promise given to waitUntil is fulfilled.
C20_DeletionFailureTolerated ==
    (phase = "activated" /\ act.failed) => act.settled = "fulfilled"

\* the dynamic cache
Dynamic == store[DYNAMIC_CACHE_NAME]

\* the answers of an install, one of which is not a successful response
SomeAssetFailed(out) == \E i \in 1..Len(out) : out[i] \notin 200..299

\* C21: an install one of whose assets cannot be fetched leaves its version
\* redundant although skipWaiting was asked for; a redundant version is
\* never activated; and the active version changes only to a version whose
\* install got every asset, so the version that was active stays active.
C21_FailedInstallNeverActive ==
    [][ /\ (phase = "installing" /\ phase' # "installing" /\ SomeAssetFailed(hist'.lastOut))
           => (phase' = "redundant" /\ active' = active /\ skipWaiting)
        /\ phase = "redundant" => phase' \in {"redundant", "installing"}
        /\ active' # active
           => (active' = gen /\ phase = "installed" /\ ~SomeAssetFailed(hist.lastOut))
      ]_vars

\* C21, witness: the second version failed to install while the first one
\* is active.
C21_Witness ==
    /\ gen = 2
    /\ phase = "redundant"
    /\ hist.installFailed
    /\ skipWaiting
    /\ active = 1

\* C22: the promise an event handler gave to respondWith or waitUntil does
\* not settle before all the work the handler started has settled: no
\* handler has its response while it still fetches or writes, and no periodic
\* refresh is complete while its showNotification call is pending.
C22_WorkUnderToken ==
    /\ \A h \in H : hs[h].ret # Pending => hs[h].pc \in {"idle", "done"}
    /\ upd.pc = "done" => upd.notice # "pending"

\* the handler wrote the response it returned into the dynamic cache
Wrote(h) ==
    /\ hs[h].pc = "done"
    /\ ~hs[h].netFailed
    /\ ~hs[h].bg
    /\ \/ hs[h].strat = "networkFirst"
       \/ hs[h].strat = "cacheFirst" /\ hs[h].missed /\ IsCacheable(hs[h].ret)

\* the number of entries of cache c under key
Count(c, key) == Cardinality({ i \in 1..Len(c) : c[i].key = key })

\* C23: the dynamic cache never holds two entries of one key; a put leaves
\* exactly one entry of its key, the response it put; and when two handlers
\* have written the same key the cache holds that key with the response of
\* one of them.
C23_LastWriteWins ==
    /\ [] ( /\ \A i \in 1..Len(Dynamic) : Count(Dynamic, Dynamic[i].key) = 1
            /\ \A h1, h2 \in H :
                  (h1 # h2 /\ Wrote(h1) /\ Wrote(h2) /\ hs[h1].req.url = hs[h2].req.url)
                  => /\ Count(Dynamic, hs[h1].req.url) = 1
                     /\ CacheMatch(Dynamic, hs[h1].req.url) \in {hs[h1].ret, hs[h2].ret} )
    /\ [][ \A h \in H :
             (hs[h].pc = "cr_put" /\ hs'[h].pc = "done")
             => /\ Count(Dynamic', hs[h].req.url) = 1
                /\ CacheMatch(Dynamic', hs[h].req.url) = hs[h].resp
         ]_vars

\* C23, witness: two handlers have written the same key with different
\* responses.
C23_Witness ==
    \E h1, h2 \in H :
        /\ h1 # h2
        /\ Wrote(h1) /\ Wrote(h2)
        /\ hs[h1].req.url = hs[h2].req.url
        /\ hs[h1].ret # hs[h2].ret

\* C24: every write into the dynamic cache is the put of a cacheResponse,
\* which made the quota check just before.
C24_QuotaCheckBeforeWrite ==
    [][ (Dynamic' # Dynamic /\ Len(Dynamic') >= Len(Dynamic))
        => \E h \in H : hs[h].pc = "cr_put" /\ hs'[h].pc = "done"
      ]_vars

C26_SweepLeavesOnlyFresh ==
    (swp.pc = "done" /\ ~swp.disturbed)
    => /\ \A i \in 1..Len(Dynamic) : swp.t - Dynamic[i].at <= MAX_AGE_MS
       /\ \A i \in 1..Len(swp.before) :
             swp.t - swp.before[i].at <= MAX_AGE_MS
             => swp.before[i] \in Range(Dynamic)

\* C27: the cache-first staleness check goes by the moment the entry was
\* written: a hit starts the refresh exactly when the entry was written more
\* than MAX_AGE_MS before.
C27_AgeFromWriteTime ==
    \A h \in H :
        (hs[h].strat = "cacheFirst" /\ hs[h].hit # <<>>)
        => (hs[h].bg <=> hs[h].seen - hs[h].hit[1].at > MAX_AGE_MS)

\* C28: a document whose fetch failed and that no entry matches goes on to
\* the lookup of '/', and is answered with the entry of '/' whenever a cache
\* holds one.
C28_ShellFallback ==
    [][ \A h \in H :
          /\ ( /\ hs[h].pc = "nf_match"
               /\ hs'[h].pc # "nf_match"
               /\ hs'[h].missed
               /\ hs[h].req.html )
             => hs'[h].pc = "nf_shell"
          /\ ( /\ hs[h].pc = "nf_shell"
               /\ hs'[h].pc = "done"
               /\ \E n \in Range(cacheNames) : CacheHas(store[n], ROOT) )
             => /\ hs[h].netFailed /\ hs[h].missed /\ hs[h].req.html
                /\ hs'[h].ret # Undefined
                /\ hs'[h].ret = MatchIn(cacheNames, store, ROOT)
      ]_vars

\* C28, witness: the request of /new.html, offline, was answered with the
\* entry of '/' of the static cache.
C28_Witness ==
    \E h \in H :
        /\ hs[h].req = Request(NEWPAGE, "GET", TRUE)
        /\ hs[h].pc = "done"
        /\ hs[h].netFailed /\ hs[h].missed
        /\ hs[h].ret = CacheMatch(store[STATIC_CACHE_NAME], ROOT)
        /\ hs[h].ret.status = 200

\* C29: a network-first request that is no document, whose fetch failed and
\* that no entry matches, is answered with the plain-text Offline response,
\* status 503.
C29_OfflinePlainText ==
    \A h \in H :
        ( /\ hs[h].strat = "networkFirst"
          /\ ~hs[h].req.html
          /\ hs[h].netFailed
          /\ hs[h].missed )
        => /\ hs[h].pc = "done"
           /\ hs[h].ret = Response(503, "text/plain", NoDate, "Offline", 0)

\* C29, witness: an api request got the 503.
C29_Witness ==
    \E h \in H :
        /\ hs[h].req = Request(APIDATA, "GET", FALSE)
        /\ hs[h].pc = "done"
        /\ hs[h].netFailed /\ hs[h].missed
        /\ hs[h].ret.status = 503
        /\ hs[h].ret.ctype = "text/plain"

\* C30: a cache-first request that no entry matches and whose fetch fails
\* is answered with the synthetic plain-text response of status 408, and the
\* failed fetch writes nothing.
C30_NetworkErrorResponse ==
    [][ \A h \in H :
          (hs[h].pc = "fc_fetch" /\ hs[h].missed /\ hs'[h].netFailed)
          => /\ hs'[h].pc = "done"
             /\ hs'[h].ret = Response(408, "text/plain", NoDate, "Network error occurred", 0)
             /\ store' = store
             /\ cacheNames' = cacheNames
      ]_vars

\* C30, witness: the request of the logo, not cached, failed and got the 408.
C30_Witness ==
    \E h \in H :
        /\ hs[h].req = Request(LOGO, "GET", FALSE)
        /\ hs[h].pc = "done"
        /\ hs[h].missed /\ hs[h].netFailed
        /\ hs[h].ret.status = 408

\* C31: a cache-first request that no entry matches and whose fetch is
\* answered goes on to write the response when it is successful (2xx), and
\* returns it unwritten otherwise; the write leaves the response as the entry
\* of the request and the handler returns it.
C31_MissWritesSuccessful ==
    [][ \A h \in H :
          /\ ( /\ hs[h].pc = "fc_fetch"
               /\ hs[h].missed
               /\ hs'[h].pc # "fc_fetch"
               /\ ~hs'[h].netFailed )
             => LET r == IF hs'[h].pc = "cr_open" THEN hs'[h].resp ELSE hs'[h].ret
                IN  /\ Ok(r) => hs'[h].pc = "cr_open"
                    /\ ~Ok(r) => (hs'[h].pc = "done" /\ store' = store)
          /\ ( /\ hs[h].pc = "cr_put"
               /\ hs[h].strat = "cacheFirst"
               /\ hs[h].missed
               /\ hs'[h].pc = "done" )
             => /\ hs'[h].ret = hs[h].resp
                /\ CachesMatch(hs[h].req.url)' = hs[h].resp
      ]_vars

\* C32: the background refresh of a stale hit goes on to a write only with
\* a successful response; a refresh that fails or is answered otherwise ends
\* there and changes no cache and not the response of the handler, which is
\* the stale entry from the hit on.
C32_FailedRefreshKeepsStale ==
    /\ [] ( \A h \in H :
               hs[h].bg => (hs[h].ret # Pending /\ hs[h].ret # Undefined
                            /\ IsStale(hs[h].ret, hs[h].seen)) )
    /\ [][ \A h \in H :
             (hs[h].pc = "fc_fetch" /\ hs[h].bg /\ hs'[h].pc # "fc_fetch")
             => /\ hs'[h].ret = hs[h].ret
                /\ store' = store
                /\ cacheNames' = cacheNames
                /\ hs'[h].pc = "cr_open" => Ok(hs'[h].resp)
                /\ hs'[h].pc # "cr_open" => hs'[h].pc = "done"
         ]_vars

\* C32, witness: the refresh of a stale hit on the manifest failed; the
\* handler has the entry of the static cache, which is still there.
C32_Witness ==
    \E h \in H :
        /\ hs[h].req = Request(MANIFEST, "GET", FALSE)
        /\ hs[h].bg
        /\ hs[h].pc = "done"
        /\ hs[h].netFailed
        /\ hs[h].ret = CacheMatch(store[STATIC_CACHE_NAME], MANIFEST)
        /\ Ok(hs[h].ret)

\* C33: the click on a notification a push produced goes to the data.url of
\* the push payload when the payload is a JSON object with a data member
\* that has a url, and to '/' otherwise: no payload, a payload that is no
\* JSON, JSON that is no object, an object without data, data without url.
C33_ClickTargetFromPayload ==
    \A i \in 1..Len(shown) :
        shown[i].closed
        => LET p == shown[i].payload
           IN  shown[i].target =
                  IF p.kind = "object" /\ p.hasData /\ p.url # NoTarget
                  THEN p.url
                  ELSE Target("", "/")

\* C33, witness: the notification of a payload whose data.url is
\* /index.html was clicked.
C33_Witness ==
    \E i \in 1..Len(shown) :
        /\ shown[i].closed
        /\ shown[i].payload.hasData
        /\ shown[i].payload.url = Target("", "/index.html")
        /\ shown[i].target = Target("", "/index.html")

\* C34: the static cache changes only in the step that ends an install, and
\* a cache of an earlier version only by a deletion of the activation: no
\* step of a fetch handler, of the periodic refresh or of the sweep changes a
\* cache other than the dynamic one; a lookup of a strategy misses only when
\* no cache at all holds the key, and otherwise gives the entry of the first
\* cache, in creation order, that holds it.
C34_StaticOnlyByCutover ==
    [][ /\ store'[STATIC_CACHE_NAME] # store[STATIC_CACHE_NAME]
           => (phase = "installing" /\ phase' # "installing")
        /\ \A n \in AllCacheNames \ {STATIC_CACHE_NAME, DYNAMIC_CACHE_NAME} :
              store'[n] # store[n] => (n \in act.pending /\ n \in act'.deleted)
        /\ \A h \in H :
              (hs[h].pc \in {"cf_match", "nf_match"} /\ hs'[h].pc # hs[h].pc)
              => /\ hs'[h].missed
                    <=> \A n \in Range(cacheNames) : ~CacheHas(store[n], hs[h].req.url)
                 /\ ~hs'[h].missed
                    => /\ hs'[h].ret = MatchIn(cacheNames, store, hs[h].req.url)
                       /\ hs'[h].hit[1].cache = MatchCache(cacheNames, store, hs[h].req.url)
      ]_vars

\* C34, witness: the periodic refresh put /index.html into the dynamic
\* cache, and a request of /index.html whose fetch failed was answered from
\* the static cache, which holds what the install put.
C34_Witness ==
    \E h \in H :
        /\ hs[h].req.url = INDEX
        /\ hs[h].pc = "done"
        /\ hs[h].hit # <<>>
        /\ hs[h].hit[1].cache = STATIC_CACHE_NAME
        /\ CacheHas(Dynamic, INDEX)
        /\ CacheMatch(Dynamic, INDEX) # hs[h].ret
        /\ upd.pc = "done"
        /\ Len(store[STATIC_CACHE_NAME]) = Len(STATIC_ASSETS)

\* C35: when a call of cacheResponse rejects after network first got its
\* response, the handler returns nothing yet and goes on to the lookup of
\* its catch, exactly as after a failed fetch: it is answered with the entry
\* that matches the request, else, for a document, with the lookup of '/',
\* else with the offline response.
C35_WriteFailureLikeNetworkFailure ==
    [][ \A h \in H :
          /\ (hs[h].strat = "networkFirst" /\ ~hs[h].writeFailed /\ hs'[h].writeFailed)
             => (hs'[h].pc = "nf_match" /\ hs'[h].ret = Pending)
          /\ ( /\ hs[h].strat = "networkFirst"
               /\ hs[h].writeFailed \/ hs[h].netFailed
               /\ hs[h].pc = "nf_match"
               /\ hs'[h].pc # "nf_match" )
             => IF \E n \in Range(cacheNames) : CacheHas(store[n], hs[h].req.url)
                THEN hs'[h].pc = "done" /\ hs'[h].ret = CachesMatch(hs[h].req.url)
                ELSE IF hs[h].req.html
                THEN hs'[h].pc = "nf_shell" /\ hs'[h].ret = Pending
                ELSE hs'[h].pc = "done" /\ hs'[h].ret = offlineResponse(hs[h].req)
          /\ ( /\ hs[h].strat = "networkFirst"
               /\ hs[h].writeFailed \/ hs[h].netFailed
               /\ hs[h].pc = "nf_shell"
               /\ hs'[h].pc # "nf_shell" )
             => hs'[h].pc = "done" /\ hs'[h].ret = CachesMatch(ROOT)
      ]_vars

\* C35, witness: the api request was fetched with status 200, the write
\* failed, no entry matched and the handler answered with the 503 instead.
C35_Witness ==
    \E h \in H :
        /\ hs[h].req = Request(APIDATA, "GET", FALSE)
        /\ hs[h].pc = "done"
        /\ hs[h].writeFailed
        /\ ~hs[h].netFailed
        /\ hs[h].resp.status = 200
        /\ hs[h].missed
        /\ hs[h].ret = offlineResponse(hs[h].req)

\* C36: an entry of the dynamic cache whose response has no date header
\* leaves the cache only by the eviction of a cacheResponse or by a put under
\* its key, never by a deletion of the sweep.
C36_SweepSparesUndated ==
    [][ \A i \in 1..Len(Dynamic) :
          (Dynamic[i].resp.date = NoDate /\ Dynamic[i] \notin Range(Dynamic'))
          => \/ \E h \in H : hs[h].pc = "cr_delete" /\ hs'[h].pc = "cr_put"
             \/ \E h \in H : /\ hs[h].pc = "cr_put" /\ hs'[h].pc = "done"
                              /\ hs[h].req.url = Dynamic[i].key
             \/ /\ upd.pc = "put" /\ upd' # upd
                /\ pagesToUpdate[upd.i] = Dynamic[i].key
      ]_vars

\* C37: a cache-first lookup that finds an entry whose response has no date
\* header returns that response and starts the background fetch, every time
\* and whenever the entry was written.
C37_UndatedAlwaysStale ==
    /\ [] ( \A h \in H :
               (hs[h].strat = "cacheFirst" /\ hs[h].hit # <<>> /\ hs[h].ret.date = NoDate)
               => hs[h].bg )
    /\ [][ \A h \in H :
             ( /\ hs[h].pc = "cf_match"
               /\ hs'[h].pc # "cf_match"
               /\ CachesMatch(hs[h].req.url) # Undefined
               /\ CachesMatch(hs[h].req.url).date = NoDate )
             => /\ hs'[h].ret = CachesMatch(hs[h].req.url)
                /\ hs'[h].bg
                /\ hs'[h].pc = "fc_fetch"
         ]_vars

\* C37, witness: two requests of the manifest both found the entry without
\* date header that was written at that very instant, and both started the
\* background fetch.
C37_Witness ==
    \E h1, h2 \in H :
        /\ h1 # h2
        /\ hs[h1].req.url = MANIFEST /\ hs[h2].req.url = MANIFEST
        /\ hs[h1].hit # <<>> /\ hs[h2].hit # <<>>
        /\ hs[h1].ret.date = NoDate /\ hs[h2].ret.date = NoDate
        /\ hs[h1].hit[1].at = hs[h1].seen /\ hs[h2].hit[1].at = hs[h2].seen
        /\ hs[h1].bg /\ hs[h2].bg

\* C38: one call of generatePDFWithCanvas makes at most one call of
\* captureAndGeneratePDF and saves at most one file, and has made exactly one
\* call when no callback, timeout or rendering is pending.
C38_OneCaptureOneFile ==
    /\ pdf.calls <= 1
    /\ Len(pdf.files) <= 1
    /\ ( /\ pdf.pc = "started"
         /\ pdf.waiting = 0
         /\ pdf.captureTimers = 0
         /\ ~pdf.timeout
         /\ pdf.rendering = 0 )
       => pdf.calls = 1

====
